---- MODULE Spec2Model ----
(***************************************************************************)
(* Model of probed/net.c of SLA-NG: the wrapped network functions          *)
(* recv_w_ts, send_w_ts and bind_or_die, run by one single-threaded        *)
(* process.  Every system call of net.c is one step whose outcome is       *)
(* chosen by the environment; calllog records, for the call in progress    *)
(* (or the one that returned last), the system calls and syslog entries in *)
(* the order the code issued them.                                         *)
(***************************************************************************)
EXTENDS Integers, Sequences, FiniteSets, TLC

VARIABLES pc, cfg, clock, socks, s_udp, s_tcp, call, calllog, ret, pkt, ts,
          exitAt, returned, ncalls

vars == <<pc, cfg, clock, socks, s_udp, s_tcp, call, calllog, ret, pkt, ts,
          exitAt, returned, ncalls>>

\* ---------------------------------------------------------------- bounds
\* number of payload bytes of a packet (DATALEN of probed.h, kept small)
DATALEN == 2
\* largest reading of CLOCK_REALTIME the model distinguishes
MaxClock == 2
\* how many times the caller may invoke bind_or_die in one process run
MaxBindCalls == 2

\* backlog handed to listen()
BACKLOG == 10

Ports == {1, 2}
Addrs == {1, 2}
Byte == {0, 1}
\* a struct timespec; 0 is the all-zero timespec memset leaves
TsVals == 0..MaxClock
Buffers == [1..DATALEN -> Byte]
Datagrams == UNION {[1..n -> Byte] : n \in 0..DATALEN}

\* flags argument of recv_w_ts: 0, or MSG_ERRQUEUE
MSG_ERRQUEUE == "MSG_ERRQUEUE"
NOFLAGS == "NONE"
FlagVals == {NOFLAGS, MSG_ERRQUEUE}

BindPcs == {"b_udp_socket", "b_udp_v6only", "b_udp_bind", "b_tcp_socket",
            "b_tcp_v6only", "b_tcp_reuse", "b_tcp_bind", "b_listen"}
SendPcs == {"s_sendto", "s_fetch"}
RecvPcs == {"r_recvmsg", "r_extract"}

NoCall == [fn |-> "none", port |-> 0, flags |-> NOFLAGS]

\* ------------------------------------------------------------ the call log
Ev(e, rc, arg) == [ev |-> e, rc |-> rc, arg |-> arg]
Syslog(level, msg) == [ev |-> "syslog", rc |-> 0, arg |-> <<level, msg>>]
Events(e) == {i \in 1..Len(calllog) : calllog[i].ev = e}
Failed(e) == {i \in Events(e) : calllog[i].rc < 0}
Succeeded(e) == {i \in Events(e) : calllog[i].rc >= 0}
Logged(msg) == {i \in Events("syslog") : calllog[i].arg[2] = msg}

\* ------------------------------------------------------------- the kernel
\* a freshly created socket: not bound, not listening, SO_REUSEADDR off
\* (of the socket options only SO_REUSEADDR bears on bind, so it is the one
\* option the socket table keeps; calllog has the outcome of each setsockopt)
NewSock(proto) == [proto |-> proto, port |-> 0, listening |-> FALSE,
                   reuse |-> FALSE]

\* bind(fd, port) is refused with EADDRINUSE: another socket of the same
\* protocol holds the port, unless both set SO_REUSEADDR and the holder is
\* not listening
AddrInUse(fd, port) ==
    \E o \in 1..Len(socks) :
        /\ o # fd
        /\ socks[o].proto = socks[fd].proto
        /\ socks[o].port = port
        /\ ~(socks[o].reuse /\ socks[fd].reuse /\ ~socks[o].listening)

\* bytes recvmsg leaves in the DATALEN sized buffer that was zeroed before
Fill(buf, d) == [i \in 1..DATALEN |-> IF i <= Len(d) THEN d[i] ELSE buf[i]]
Zeroed == [i \in 1..DATALEN |-> 0]

\* ------------------------------------------------------------------- Init
Init ==
    /\ pc = "main"
    /\ cfg \in [ts : {"u", "k"}]
    /\ clock = 1
    /\ socks = <<>>
    /\ s_udp = -1
    /\ s_tcp = -1
    /\ call = NoCall
    /\ calllog = <<>>
    /\ ret = <<>>
    /\ pkt = [data |-> Zeroed, addr |-> 1, ts |-> 0]
    /\ ts = 0
    /\ exitAt = "none"
    /\ returned = <<>>
    /\ ncalls = 0

\* CLOCK_REALTIME advances
Tick ==
    /\ clock < MaxClock
    /\ clock' = clock + 1
    /\ UNCHANGED <<pc, cfg, socks, s_udp, s_tcp, call, calllog, ret, pkt, ts,
                   exitAt, returned, ncalls>>

\* ------------------------------------------------------------ bind_or_die
\* exit(EXIT_FAILURE), reached after the syslog entry of the failed step
Die(step, log) ==
    /\ pc' = "exited"
    /\ exitAt' = step
    /\ calllog' = log

\* the step went through: go on with the next statement
Goto(next, log) ==
    /\ pc' = next
    /\ calllog' = log
    /\ UNCHANGED exitAt

\* the caller invokes bind_or_die(&s_udp, &s_tcp, port)
bind_or_die_begin(port) ==
    /\ pc = "main"
    /\ ncalls < MaxBindCalls
    /\ ncalls' = ncalls + 1
    /\ call' = [fn |-> "bind_or_die", port |-> port, flags |-> NOFLAGS]
    /\ pc' = "b_udp_socket"
    /\ calllog' = <<Syslog("LOG_INFO", "Binding port")>>
    /\ ret' = <<>>
    /\ pkt' = [data |-> Zeroed, addr |-> 1, ts |-> 0]
    /\ ts' = 0
    /\ UNCHANGED <<cfg, clock, socks, s_udp, s_tcp, exitAt, returned>>

\* *s_udp = socket(PF_INET6, SOCK_DGRAM, IPPROTO_UDP)
bind_udp_socket ==
    /\ pc = "b_udp_socket"
    /\ \E ok \in BOOLEAN :
        IF ok
        THEN /\ socks' = Append(socks, NewSock("udp"))
             /\ s_udp' = Len(socks) + 1
             /\ Goto("b_udp_v6only",
                     Append(calllog, Ev("socket", Len(socks) + 1, "udp")))
        ELSE /\ s_udp' = -1
             /\ socks' = socks
             /\ Die("b_udp_socket",
                    calllog \o <<Ev("socket", -1, "udp"),
                                 Syslog("LOG_ERR", "socket")>>)
    /\ UNCHANGED <<cfg, clock, s_tcp, call, ret, pkt, ts, returned, ncalls>>

\* setsockopt(*s_udp, IPPROTO_IPV6, IPV6_V6ONLY, 0): a failure is logged
bind_udp_v6only ==
    /\ pc = "b_udp_v6only"
    /\ \E ok \in BOOLEAN :
        IF ok
        THEN /\ socks' = socks
             /\ Goto("b_udp_bind",
                     Append(calllog, Ev("setsockopt", 0, "udp IPV6_V6ONLY")))
        ELSE /\ socks' = socks
             /\ Goto("b_udp_bind",
                     calllog \o <<Ev("setsockopt", -1, "udp IPV6_V6ONLY"),
                                  Syslog("LOG_ERR", "setsockopt: IPV6_V6ONLY")>>)
    /\ UNCHANGED <<cfg, clock, s_udp, s_tcp, call, ret, pkt, ts, returned,
                   ncalls>>

\* bind_udp_bind without the exit: a failed bind is logged and the binder
\* goes on
bind_udp_bind_noexit ==
    /\ pc = "b_udp_bind"
    /\ \E ok \in BOOLEAN :
        IF ok /\ ~AddrInUse(s_udp, call.port)
        THEN /\ socks' = [socks EXCEPT ![s_udp].port = call.port]
             /\ Goto("b_tcp_socket",
                     Append(calllog, Ev("bind", 0, "udp")))
        ELSE /\ socks' = socks
             /\ Goto("b_tcp_socket",
                     calllog \o
                     <<Ev("bind", -1, "udp"),
                       Syslog("LOG_ERR",
                              IF AddrInUse(s_udp, call.port)
                              THEN "bind: EADDRINUSE" ELSE "bind: EACCES")>>)
    /\ UNCHANGED <<cfg, clock, s_udp, s_tcp, call, ret, pkt, ts, returned,
                   ncalls>>

\* bind(*s_udp, in6addr_any:port)
bind_udp_bind ==
    /\ pc = "b_udp_bind"
    /\ \E ok \in BOOLEAN :
        IF ok /\ ~AddrInUse(s_udp, call.port)
        THEN /\ socks' = [socks EXCEPT ![s_udp].port = call.port]
             /\ Goto("b_tcp_socket",
                     Append(calllog, Ev("bind", 0, "udp")))
        ELSE /\ socks' = socks
             /\ Die("b_udp_bind",
                    calllog \o
                    <<Ev("bind", -1, "udp"),
                      Syslog("LOG_ERR",
                             IF AddrInUse(s_udp, call.port)
                             THEN "bind: EADDRINUSE" ELSE "bind: EACCES")>>)
    /\ UNCHANGED <<cfg, clock, s_udp, s_tcp, call, ret, pkt, ts, returned,
                   ncalls>>

\* *s_tcp = socket(PF_INET6, SOCK_STREAM, IPPROTO_TCP)
bind_tcp_socket ==
    /\ pc = "b_tcp_socket"
    /\ \E ok \in BOOLEAN :
        IF ok
        THEN /\ socks' = Append(socks, NewSock("tcp"))
             /\ s_tcp' = Len(socks) + 1
             /\ Goto("b_tcp_v6only",
                     Append(calllog, Ev("socket", Len(socks) + 1, "tcp")))
        ELSE /\ s_tcp' = -1
             /\ socks' = socks
             /\ Die("b_tcp_socket",
                    calllog \o <<Ev("socket", -1, "tcp"),
                                 Syslog("LOG_ERR", "socket")>>)
    /\ UNCHANGED <<cfg, clock, s_udp, call, ret, pkt, ts, returned, ncalls>>

\* setsockopt(*s_tcp, IPPROTO_IPV6, IPV6_V6ONLY, 0): a failure is logged
bind_tcp_v6only ==
    /\ pc = "b_tcp_v6only"
    /\ \E ok \in BOOLEAN :
        IF ok
        THEN /\ socks' = socks
             /\ Goto("b_tcp_reuse",
                     Append(calllog, Ev("setsockopt", 0, "tcp IPV6_V6ONLY")))
        ELSE /\ socks' = socks
             /\ Goto("b_tcp_reuse",
                     calllog \o <<Ev("setsockopt", -1, "tcp IPV6_V6ONLY"),
                                  Syslog("LOG_ERR", "setsockopt: IPV6_V6ONLY")>>)
    /\ UNCHANGED <<cfg, clock, s_udp, s_tcp, call, ret, pkt, ts, returned,
                   ncalls>>

\* bind_tcp_reuseaddr treating the failed setsockopt as fatal
bind_tcp_reuseaddr_fatal ==
    /\ pc = "b_tcp_reuse"
    /\ \E ok \in BOOLEAN :
        IF ok
        THEN /\ socks' = [socks EXCEPT ![s_tcp].reuse = TRUE]
             /\ Goto("b_tcp_bind",
                     Append(calllog, Ev("setsockopt", 0, "tcp SO_REUSEADDR")))
        ELSE /\ socks' = socks
             /\ Die("b_tcp_reuse",
                    calllog \o <<Ev("setsockopt", -1, "tcp SO_REUSEADDR"),
                                 Syslog("LOG_ERR", "setsockopt: SO_REUSEADDR")>>)
    /\ UNCHANGED <<cfg, clock, s_udp, s_tcp, call, ret, pkt, ts, returned,
                   ncalls>>

\* setsockopt(*s_tcp, SOL_SOCKET, SO_REUSEADDR, 1): a failure is logged
bind_tcp_reuseaddr ==
    /\ pc = "b_tcp_reuse"
    /\ \E ok \in BOOLEAN :
        IF ok
        THEN /\ socks' = [socks EXCEPT ![s_tcp].reuse = TRUE]
             /\ Goto("b_tcp_bind",
                     Append(calllog, Ev("setsockopt", 0, "tcp SO_REUSEADDR")))
        ELSE /\ socks' = socks
             /\ Goto("b_tcp_bind",
                     calllog \o <<Ev("setsockopt", -1, "tcp SO_REUSEADDR"),
                                  Syslog("LOG_ERR", "setsockopt: SO_REUSEADDR")>>)
    /\ UNCHANGED <<cfg, clock, s_udp, s_tcp, call, ret, pkt, ts, returned,
                   ncalls>>

\* bind(*s_tcp, in6addr_any:port)
bind_tcp_bind ==
    /\ pc = "b_tcp_bind"
    /\ \E ok \in BOOLEAN :
        IF ok /\ ~AddrInUse(s_tcp, call.port)
        THEN /\ socks' = [socks EXCEPT ![s_tcp].port = call.port]
             /\ Goto("b_listen",
                     Append(calllog, Ev("bind", 0, "tcp")))
        ELSE /\ socks' = socks
             /\ Die("b_tcp_bind",
                    calllog \o
                    <<Ev("bind", -1, "tcp"),
                      Syslog("LOG_ERR",
                             IF AddrInUse(s_tcp, call.port)
                             THEN "bind: EADDRINUSE" ELSE "bind: EACCES")>>)
    /\ UNCHANGED <<cfg, clock, s_udp, s_tcp, call, ret, pkt, ts, returned,
                   ncalls>>

\* bind_listen without the exit: a failed listen is logged and bind_or_die
\* returns
bind_listen_noexit ==
    /\ pc = "b_listen"
    /\ \E ok \in BOOLEAN :
        IF ok
        THEN /\ socks' = [socks EXCEPT ![s_tcp].listening = TRUE]
             /\ returned' = Append(returned, call.port)
             /\ Goto("main", Append(calllog, Ev("listen", 0, BACKLOG)))
        ELSE /\ socks' = socks
             /\ returned' = Append(returned, call.port)
             /\ Goto("main",
                     calllog \o <<Ev("listen", -1, BACKLOG),
                                  Syslog("LOG_ERR", "listen")>>)
    /\ UNCHANGED <<cfg, clock, s_udp, s_tcp, call, ret, pkt, ts, ncalls>>

\* listen(*s_tcp, 10); on success bind_or_die returns to its caller
bind_listen ==
    /\ pc = "b_listen"
    /\ \E ok \in BOOLEAN :
        IF ok
        THEN /\ socks' = [socks EXCEPT ![s_tcp].listening = TRUE]
             /\ returned' = Append(returned, call.port)
             /\ Goto("main", Append(calllog, Ev("listen", 0, BACKLOG)))
        ELSE /\ socks' = socks
             /\ returned' = returned
             /\ Die("b_listen",
                    calllog \o <<Ev("listen", -1, BACKLOG),
                                 Syslog("LOG_ERR", "listen")>>)
    /\ UNCHANGED <<cfg, clock, s_udp, s_tcp, call, ret, pkt, ts, ncalls>>

bind_or_die ==
    \/ \E port \in Ports : bind_or_die_begin(port)
    \/ bind_udp_socket
    \/ bind_udp_v6only
    \/ bind_udp_bind
    \/ bind_tcp_socket
    \/ bind_tcp_v6only
    \/ bind_tcp_reuseaddr
    \/ bind_tcp_bind
    \/ bind_listen

\* -------------------------------------------------------------- tstamp.c
\* tstamp_extract(msg, &ts): parse the timestamp control entry of a message
\* just received.  found: the entry is present and well formed, and t is
\* its timestamp; otherwise the call fails and leaves in *ts either what was
\* there (keep) or zeroes.
tstamp_extract(found, t, keep, cur) ==
    IF found THEN [rc |-> 0, ts |-> t]
    ELSE [rc |-> -1, ts |-> IF keep THEN cur ELSE 0]

\* tstamp_fetch_tx(sock, &ts): poll the error queue of sock for the kernel
\* TX timestamp of the packet just sent.  found: the completion was there
\* and carried timestamp t; otherwise the call fails and *ts is as before.
tstamp_fetch_tx(found, t, cur) ==
    IF found THEN [rc |-> 0, ts |-> t]
    ELSE [rc |-> -1, ts |-> cur]

\* -------------------------------------------------------------- send_w_ts
\* the function returns rc to its caller (ret is <<>> while a call runs)
Return(rc, log) ==
    /\ pc' = "main"
    /\ ret' = <<rc>>
    /\ calllog' = log

\* send_w_ts_begin without the userland clock reading
send_w_ts_begin_noclock(addr) ==
    /\ pc = "main"
    /\ returned # <<>>
    /\ call' = [fn |-> "send_w_ts", port |-> addr, flags |-> NOFLAGS]
    /\ ret' = <<>>
    /\ pkt' = [data |-> Zeroed, addr |-> 1, ts |-> 0]
    /\ ts' = 0
    /\ calllog' = <<>>
    /\ pc' = "s_sendto"
    /\ UNCHANGED <<cfg, clock, socks, s_udp, s_tcp, exitAt, returned, ncalls>>

\* send_w_ts(sock, addr, data, &ts) up to the send: zero *ts and, in
\* userland mode, read the clock into it
send_w_ts_begin(addr) ==
    /\ pc = "main"
    /\ returned # <<>>
    /\ call' = [fn |-> "send_w_ts", port |-> addr, flags |-> NOFLAGS]
    /\ ret' = <<>>
    /\ pkt' = [data |-> Zeroed, addr |-> 1, ts |-> 0]
    /\ IF cfg.ts = "u"
       THEN /\ ts' = clock
            /\ calllog' = <<Ev("clock_gettime", 0, clock)>>
       ELSE /\ ts' = 0
            /\ calllog' = <<>>
    /\ pc' = "s_sendto"
    /\ UNCHANGED <<cfg, clock, socks, s_udp, s_tcp, exitAt, returned, ncalls>>

\* send_sendto without the return after a failed sendto: in kernel mode the
\* function goes on to fetch the TX timestamp
send_sendto_noreturn ==
    /\ pc = "s_sendto"
    /\ \E ok \in BOOLEAN :
        LET log == IF ok THEN Append(calllog, Ev("sendto", DATALEN, call.port))
                   ELSE calllog \o <<Ev("sendto", -1, call.port),
                                     Syslog("LOG_INFO", "sendto")>> IN
        IF cfg.ts # "u"
        THEN /\ pc' = "s_fetch"
             /\ calllog' = log
             /\ ret' = ret
        ELSE Return(0, log)
    /\ UNCHANGED <<cfg, clock, socks, s_udp, s_tcp, call, pkt, ts, exitAt,
                   returned, ncalls>>

\* sendto(sock, data, DATALEN, 0, addr): a failure is logged and returned
send_sendto ==
    /\ pc = "s_sendto"
    /\ \E ok \in BOOLEAN :
        IF ~ok
        THEN Return(-1, calllog \o <<Ev("sendto", -1, call.port),
                                     Syslog("LOG_INFO", "sendto")>>)
        ELSE IF cfg.ts # "u"
             THEN /\ pc' = "s_fetch"
                  /\ calllog' = Append(calllog, Ev("sendto", DATALEN, call.port))
                  /\ ret' = ret
             ELSE Return(0, Append(calllog, Ev("sendto", DATALEN, call.port)))
    /\ UNCHANGED <<cfg, clock, socks, s_udp, s_tcp, call, pkt, ts, exitAt,
                   returned, ncalls>>

\* kernel mode: tstamp_fetch_tx(sock, ts); a failure is logged and returned
send_fetch_tx ==
    /\ pc = "s_fetch"
    /\ \E found \in BOOLEAN, t \in 1..clock :
        LET r == tstamp_fetch_tx(found, t, ts) IN
        /\ ts' = r.ts
        /\ IF r.rc < 0
           THEN Return(-1, calllog \o <<Ev("tstamp_fetch_tx", r.rc, r.ts),
                                        Syslog("LOG_ERR", "TX timestamp error")>>)
           ELSE Return(0, Append(calllog, Ev("tstamp_fetch_tx", r.rc, r.ts)))
    /\ UNCHANGED <<cfg, clock, socks, s_udp, s_tcp, call, pkt, exitAt,
                   returned, ncalls>>

send_w_ts ==
    \/ \E addr \in Addrs : send_w_ts_begin(addr)
    \/ send_sendto
    \/ send_fetch_tx

\* -------------------------------------------------------------- recv_w_ts
\* recv_w_ts_begin without the memset of pkt->data
recv_w_ts_begin_nomemset(flags, pkt0) ==
    /\ pc = "main"
    /\ returned # <<>>
    /\ call' = [fn |-> "recv_w_ts", port |-> 0, flags |-> flags]
    /\ ret' = <<>>
    /\ ts' = 0
    /\ pkt' = pkt0
    /\ calllog' = <<>>
    /\ pc' = "r_recvmsg"
    /\ UNCHANGED <<cfg, clock, socks, s_udp, s_tcp, exitAt, returned, ncalls>>

\* recv_w_ts(sock, flags, pkt) up to the receive: pkt0 is what the caller's
\* pkt holds on entry; pkt->data is zeroed and the message header set up
recv_w_ts_begin(flags, pkt0) ==
    /\ pc = "main"
    /\ returned # <<>>
    /\ call' = [fn |-> "recv_w_ts", port |-> 0, flags |-> flags]
    /\ ret' = <<>>
    /\ ts' = 0
    /\ pkt' = [pkt0 EXCEPT !.data = Zeroed]
    /\ calllog' = <<>>
    /\ pc' = "r_recvmsg"
    /\ UNCHANGED <<cfg, clock, socks, s_udp, s_tcp, exitAt, returned, ncalls>>

\* recv_recvmsg ending the process on a failed recvmsg
recv_recvmsg_fatal ==
    /\ pc = "r_recvmsg"
    /\ \E ok \in BOOLEAN, d \in Datagrams, a \in Addrs :
        IF ok
        THEN /\ pkt' = [pkt EXCEPT !.data = Fill(pkt.data, d), !.addr = a]
             /\ Goto("r_extract",
                     Append(calllog, Ev("recvmsg", Len(d), <<d, a>>)))
        ELSE /\ pkt' = pkt
             /\ Die("r_recvmsg",
                    calllog \o <<Ev("recvmsg", -1, <<>>),
                                 Syslog("LOG_INFO", "recvmsg")>>)
    /\ UNCHANGED <<cfg, clock, socks, s_udp, s_tcp, call, ret, ts,
                   returned, ncalls>>

\* recvmsg(sock, msg, flags): d and a are the datagram and the peer address
\* the kernel delivers; a failure returns -1, logged unless flags has
\* MSG_ERRQUEUE
recv_recvmsg ==
    /\ pc = "r_recvmsg"
    /\ \E ok \in BOOLEAN, d \in Datagrams, a \in Addrs :
        IF ok
        THEN /\ pkt' = [pkt EXCEPT !.data = Fill(pkt.data, d), !.addr = a]
             /\ pc' = "r_extract"
             /\ calllog' = Append(calllog, Ev("recvmsg", Len(d), <<d, a>>))
             /\ ret' = ret
        ELSE /\ pkt' = pkt
             /\ IF call.flags # MSG_ERRQUEUE
                THEN Return(-1, calllog \o <<Ev("recvmsg", -1, <<>>),
                                             Syslog("LOG_INFO", "recvmsg")>>)
                ELSE Return(-1, Append(calllog, Ev("recvmsg", -1, <<>>)))
    /\ UNCHANGED <<cfg, clock, socks, s_udp, s_tcp, call, ts, exitAt,
                   returned, ncalls>>

\* recv_extract handling the error queue like a data receive: a failed
\* extraction is logged and 0 returned
recv_extract_noflags ==
    /\ pc = "r_extract"
    /\ \E found \in BOOLEAN, t \in 1..clock, keep \in BOOLEAN :
        LET r == tstamp_extract(found, t, keep, pkt.ts) IN
        /\ pkt' = [pkt EXCEPT !.ts = r.ts]
        /\ IF r.rc < 0
           THEN Return(0, calllog \o <<Ev("tstamp_extract", r.rc, r.ts),
                                       Syslog("LOG_ERR", "RX timestamp error")>>)
           ELSE Return(0, Append(calllog, Ev("tstamp_extract", r.rc, r.ts)))
    /\ UNCHANGED <<cfg, clock, socks, s_udp, s_tcp, call, ts, exitAt,
                   returned, ncalls>>

\* tstamp_extract(msg, &pkt->ts): on the error queue a failure returns -1,
\* on a data receive it is logged and the packet returned
recv_extract ==
    /\ pc = "r_extract"
    /\ \E found \in BOOLEAN, t \in 1..clock, keep \in BOOLEAN :
        LET r == tstamp_extract(found, t, keep, pkt.ts) IN
        /\ pkt' = [pkt EXCEPT !.ts = r.ts]
        /\ IF call.flags = MSG_ERRQUEUE
           THEN IF r.rc < 0
                THEN Return(-1, Append(calllog, Ev("tstamp_extract", r.rc, r.ts)))
                ELSE Return(0, Append(calllog, Ev("tstamp_extract", r.rc, r.ts)))
           ELSE IF r.rc < 0
                THEN Return(0, calllog \o <<Ev("tstamp_extract", r.rc, r.ts),
                                            Syslog("LOG_ERR", "RX timestamp error")>>)
                ELSE Return(0, Append(calllog, Ev("tstamp_extract", r.rc, r.ts)))
    /\ UNCHANGED <<cfg, clock, socks, s_udp, s_tcp, call, ts, exitAt,
                   returned, ncalls>>

recv_w_ts ==
    \/ \E flags \in FlagVals, pkt0 \in [data : Buffers, addr : Addrs, ts : TsVals] :
          recv_w_ts_begin(flags, pkt0)
    \/ recv_recvmsg
    \/ recv_extract

\* ---------------------------------------------------------- specification
Next ==
    \/ Tick
    \/ bind_or_die
    \/ send_w_ts
    \/ recv_w_ts

Spec == Init /\ [][Next]_vars

TypeOK ==
    /\ pc \in {"main", "exited"} \cup BindPcs \cup SendPcs \cup RecvPcs
    /\ clock \in 1..MaxClock
    /\ ret \in {<<>>, <<0>>, <<-1>>}
    /\ pkt \in [data : Buffers, addr : Addrs, ts : TsVals]
    /\ ts \in TsVals
    /\ ncalls \in 0..MaxBindCalls

\* ------------------------------------------------------------ properties
\* a call of fn has returned to the caller and no other call began since
Done(fn) == pc = "main" /\ call.fn = fn
DataRecvDone == Done("recv_w_ts") /\ call.flags # MSG_ERRQUEUE
ErrQueueRecvDone == Done("recv_w_ts") /\ call.flags = MSG_ERRQUEUE
KernelSendDone == Done("send_w_ts") /\ cfg.ts # "u"
OnlySyslogAfter(i) == \A j \in (i + 1)..Len(calllog) : calllog[j].ev = "syslog"
LoggedRightAfter(i, level, msg) ==
    /\ i < Len(calllog)
    /\ calllog[i + 1].ev = "syslog"
    /\ calllog[i + 1].arg = <<level, msg>>

\* C1: in kernel timestamp mode, whenever sendto succeeded, send_w_ts
\* returns 0 to its caller, and when the TX timestamp could not be fetched
\* the timestamp is left pending (zero) rather than the send reported failed.
C1_KernelSendSucceedsWithoutTxTimestamp ==
    (KernelSendDone /\ Succeeded("sendto") # {}) =>
        /\ ret = <<0>>
        /\ (Failed("tstamp_fetch_tx") # {} => ts = 0)

\* C2: after a data receive (no MSG_ERRQUEUE) whose recvmsg succeeded,
\* recv_w_ts has returned 0 and pkt holds the delivered datagram (zero
\* padded to DATALEN) and the delivered peer address, whether or not the
\* timestamp extraction succeeded.
C2_DataRecvKeepsPacket ==
    (DataRecvDone /\ Succeeded("recvmsg") # {}) =>
        /\ ret = <<0>>
        /\ \A i \in Succeeded("recvmsg") :
              /\ pkt.data = Fill(Zeroed, calllog[i].arg[1])
              /\ pkt.addr = calllog[i].arg[2]

C2_Witness ==
    /\ DataRecvDone
    /\ Failed("tstamp_extract") # {}
    /\ \E i \in Succeeded("recvmsg") :
          /\ Len(calllog[i].arg[1]) = 1
          /\ calllog[i].arg[1][1] = 1
          /\ calllog[i].arg[2] = 2
    /\ pkt.addr = 2
    /\ ret = <<0>>

\* C3: after a data receive that returned 0 although the timestamp
\* extraction failed, pkt.ts is marked unavailable: it is neither the zero
\* timespec nor any value a real RX time could have.
C3_FailedExtractionMarkedUnavailable ==
    (DataRecvDone /\ ret = <<0>> /\ Failed("tstamp_extract") # {}) =>
        /\ pkt.ts # 0
        /\ pkt.ts \notin 1..MaxClock

\* C4: in userland mode send_w_ts reads the clock before it issues sendto,
\* never calls tstamp_fetch_tx, and on success *ts is exactly the clock
\* reading taken before the send.
C4_UserlandTimestampBeforeSend ==
    (cfg.ts = "u" /\ call.fn = "send_w_ts") =>
        /\ Events("tstamp_fetch_tx") = {}
        /\ Cardinality(Events("clock_gettime")) = 1
        /\ \A i \in Events("sendto") :
              \E j \in Events("clock_gettime") : j < i
        /\ (pc = "main" /\ ret = <<0>>) =>
              \E j \in Events("clock_gettime") :
                  /\ ts = calllog[j].arg
                  /\ \E i \in Succeeded("sendto") : j < i

C4_Witness ==
    /\ cfg.ts = "u"
    /\ Done("send_w_ts")
    /\ ret = <<0>>
    /\ Succeeded("sendto") # {}
    /\ ts < clock

\* C5: when sendto fails, send_w_ts has made exactly one sendto attempt,
\* makes no socket operation after it (only the syslog entry) and returns
\* -1; tstamp_fetch_tx is called only after a successful sendto of the call.
C5_FailedSendNoRetryNoFetch ==
    (call.fn = "send_w_ts") =>
        /\ Cardinality(Events("sendto")) <= 1
        /\ \A i \in Failed("sendto") :
              /\ pc = "main"
              /\ ret = <<-1>>
              /\ OnlySyslogAfter(i)
        /\ \A k \in Events("tstamp_fetch_tx") :
              \E i \in Succeeded("sendto") : i < k

C5_Witness ==
    /\ KernelSendDone
    /\ Failed("sendto") # {}
    /\ Events("tstamp_fetch_tx") = {}
    /\ ret = <<-1>>

\* the five fatal steps of bind_or_die, in order
BindOrder == << <<"socket", "udp", "b_udp_socket">>,
                <<"bind", "udp", "b_udp_bind">>,
                <<"socket", "tcp", "b_tcp_socket">>,
                <<"bind", "tcp", "b_tcp_bind">>,
                <<"listen", BACKLOG, "b_listen">> >>
IsFatalStep(e) == e.ev \in {"socket", "bind", "listen"}
FatalSteps == SelectSeq(calllog, IsFatalStep)

\* C6: bind_or_die attempts UDP create, UDP bind, TCP create, TCP bind,
\* listen(10) in that order; a failed step is the last one attempted and the
\* process has exited at it; bind_or_die has returned only when all five
\* succeeded.
C6_BindFailsFast ==
    (call.fn = "bind_or_die") =>
        LET st == FatalSteps
            n == Len(st) IN
        /\ n <= 5
        /\ \A i \in 1..n :
              /\ st[i].ev = BindOrder[i][1]
              /\ st[i].arg = BindOrder[i][2]
              /\ (i < n => st[i].rc >= 0)
              /\ (st[i].rc < 0 => pc = "exited" /\ exitAt = BindOrder[i][3])
        /\ (pc = "exited" => n > 0 /\ st[n].rc < 0)
        /\ (pc = "main" => n = 5 /\ st[n].rc >= 0)

C6_Witness ==
    /\ pc = "exited"
    /\ exitAt = "b_listen"
    /\ Len(FatalSteps) = 5

\* C7: once bind_or_die(port) has returned, a second bind_or_die on the
\* same port never returns: it does not get past the UDP bind, which fails
\* with address in use, and the process exits.
C7_SecondBindSamePortFails ==
    /\ \A i, j \in 1..Len(returned) : i # j => returned[i] # returned[j]
    /\ (/\ call.fn = "bind_or_die"
        /\ pc # "main"
        /\ \E i \in 1..Len(returned) : returned[i] = call.port) =>
            /\ pc \in {"b_udp_socket", "b_udp_v6only", "b_udp_bind", "exited"}
            /\ (pc = "exited" => exitAt \in {"b_udp_socket", "b_udp_bind"})
            /\ (exitAt = "b_udp_bind" => Logged("bind: EADDRINUSE") # {})

C7_Witness ==
    /\ pc = "exited"
    /\ exitAt = "b_udp_bind"
    /\ returned = <<call.port>>
    /\ Logged("bind: EADDRINUSE") # {}

\* C8: the process exits only inside bind_or_die; send_w_ts and recv_w_ts
\* always hand a status, 0 or -1, back to the caller.
C8_SteadyStateNeverExits ==
    /\ (pc = "exited" <=> exitAt # "none")
    /\ (pc = "exited" => call.fn = "bind_or_die" /\ exitAt \in BindPcs)
    /\ (call.fn \in {"send_w_ts", "recv_w_ts"} =>
            /\ pc \in SendPcs \cup RecvPcs \cup {"main"}
            /\ (pc = "main" => ret \in {<<0>>, <<-1>>}))

C8_Witness ==
    /\ DataRecvDone
    /\ Failed("recvmsg") # {}
    /\ ret = <<-1>>
    /\ exitAt = "none"

\* C9: a failed setsockopt in bind_or_die is logged and does not end the
\* process: the binder is at the step that follows it, and can still return
\* with both sockets bound.
C9_SetsockoptBestEffort ==
    /\ exitAt \notin {"b_udp_v6only", "b_tcp_v6only", "b_tcp_reuse"}
    /\ \A i \in Failed("setsockopt") :
          /\ i < Len(calllog)
          /\ calllog[i + 1].ev = "syslog"
          /\ calllog[i + 1].arg[1] = "LOG_ERR"
          /\ (i + 1 = Len(calllog) =>
                pc = (CASE calllog[i].arg = "udp IPV6_V6ONLY" -> "b_udp_bind"
                        [] calllog[i].arg = "tcp IPV6_V6ONLY" -> "b_tcp_reuse"
                        [] calllog[i].arg = "tcp SO_REUSEADDR" -> "b_tcp_bind"))

C9_Witness ==
    /\ Done("bind_or_die")
    /\ Cardinality(Failed("setsockopt")) = 3
    /\ returned = <<call.port>>
    /\ socks[s_udp].port = call.port
    /\ socks[s_tcp].port = call.port
    /\ socks[s_tcp].listening

\* C10: an error-queue receive returns 0 exactly when recvmsg and the
\* timestamp extraction both succeeded, -1 otherwise, and writes no log
\* entry; a failed recvmsg of a data receive is logged (LOG_INFO) and -1
\* returned.
C10_ErrQueueRecvStatus ==
    /\ ErrQueueRecvDone =>
          /\ ret \in {<<0>>, <<-1>>}
          /\ (ret = <<0>> <=> (/\ Succeeded("recvmsg") # {}
                               /\ Succeeded("tstamp_extract") # {}))
          /\ Events("syslog") = {}
    /\ DataRecvDone =>
          \A i \in Failed("recvmsg") :
              /\ ret = <<-1>>
              /\ LoggedRightAfter(i, "LOG_INFO", "recvmsg")

C10_Witness ==
    /\ ErrQueueRecvDone
    /\ Succeeded("recvmsg") # {}
    /\ Failed("tstamp_extract") # {}
    /\ ret = <<-1>>
    /\ Events("syslog") = {}

====
